---- MODULE Spec2Model ----
(***************************************************************************)
(* Delivery-percentage dashboard (src/delivery_dashboard.py): the script   *)
(* as a state machine.  One run of the script is one behaviour: the        *)
(* uploaded CSV files are cleaned one by one (load_and_clean), merged,     *)
(* filtered for spikes and aggregated per day, week, month, quarter,       *)
(* half-year and year.                                                     *)
(*                                                                         *)
(* Representation.                                                         *)
(*   text     a sequence of one-character strings ("Date" is               *)
(*            <<"D","a","t","e">>), so that strip / lower / replace and    *)
(*            the parsers work on characters as the code does;             *)
(*   pd.NA    in a text column: the one-element sequence <<"<NA>">>        *)
(*            (what astype(str) prints for it);                            *)
(*   float    a fixed-point integer counting hundredths (45.6 is 4560),    *)
(*            or NaN; quotients are exact fractions, NaN or +-inf;         *)
(*   date     a record [y, m, d]; NaT is [y |-> 0, m |-> 0, d |-> 0].      *)
(***************************************************************************)
EXTENDS Integers, Sequences, FiniteSets, TLC

VARIABLES
    uploaded_files,  \* the batch of raw CSV files, in upload order
    pc,              \* position of the script
    dfs,             \* cleaned tables of the files loaded so far
    error,           \* the exception that ended the run, if any
    df,              \* the merged working table
    spike_thr,       \* slider: delivery % spike threshold (hundredths of %)
    net_value_thr,   \* slider: net value threshold (hundredths of a crore)
    spikes,          \* rows of df at or above spike_thr
    styled_df,       \* daily display rows with their highlight style
    weekly, monthly, quarterly, half_yearly, yearly   \* aggregate tables

vars == <<uploaded_files, pc, dfs, error, df, spike_thr, net_value_thr, spikes,
          styled_df, weekly, monthly, quarterly, half_yearly, yearly>>

(***************************************************************************)
(* Bounds of the model.                                                    *)
(***************************************************************************)
MaxFiles == 2
MaxRows == 2

(***************************************************************************)
(* Text.                                                                   *)
(***************************************************************************)
Range(s) == {s[i] : i \in 1..Len(s)}

NA == <<"<NA>">>

\* str.lower() on one character
LowerOf ==
    [ch \in {"A","B","C","D","E","F","G","H","I","J","K","L","M",
             "N","O","P","Q","R","S","T","U","V","W","X","Y","Z"} |->
        CASE ch = "A" -> "a" [] ch = "B" -> "b" [] ch = "C" -> "c" [] ch = "D" -> "d"
          [] ch = "E" -> "e" [] ch = "F" -> "f" [] ch = "G" -> "g" [] ch = "H" -> "h"
          [] ch = "I" -> "i" [] ch = "J" -> "j" [] ch = "K" -> "k" [] ch = "L" -> "l"
          [] ch = "M" -> "m" [] ch = "N" -> "n" [] ch = "O" -> "o" [] ch = "P" -> "p"
          [] ch = "Q" -> "q" [] ch = "R" -> "r" [] ch = "S" -> "s" [] ch = "T" -> "t"
          [] ch = "U" -> "u" [] ch = "V" -> "v" [] ch = "W" -> "w" [] ch = "X" -> "x"
          [] ch = "Y" -> "y" [] ch = "Z" -> "z"]
LowerChar(ch) == IF ch \in DOMAIN LowerOf THEN LowerOf[ch] ELSE ch

\* str.lower()
Lower(s) == [i \in 1..Len(s) |-> LowerChar(s[i])]

IsSpace(ch) == ch \in {" ", "\t"}

\* str.strip(): leading and trailing whitespace removed
RECURSIVE LStrip(_)
LStrip(s) == IF s # <<>> /\ IsSpace(Head(s)) THEN LStrip(Tail(s)) ELSE s

RECURSIVE RStrip(_)
RStrip(s) ==
    IF s # <<>> /\ IsSpace(s[Len(s)]) THEN RStrip(SubSeq(s, 1, Len(s) - 1)) ELSE s

Strip(s) == RStrip(LStrip(s))

\* str.replace(old, new) for a one-character old
ReplaceChar(s, old, new) == [i \in 1..Len(s) |-> IF s[i] = old THEN new ELSE s[i]]

\* str.replace(old, "") for a one-character old
RemoveChar(s, old) == SelectSeq(s, LAMBDA ch : ch # old)

\* ", ".join(parts)
RECURSIVE Join(_, _)
Join(parts, sep) ==
    IF parts = <<>> THEN <<>>
    ELSE IF Len(parts) = 1 THEN parts[1]
    ELSE parts[1] \o sep \o Join(Tail(parts), sep)

\* needle occurs in text as a contiguous substring
Contains(text, needle) ==
    \E i \in 0..(Len(text) - Len(needle)) :
        SubSeq(text, i + 1, i + Len(needle)) = needle

\* Code-point order of the characters that occur in symbols.
CharOrder == <<"-", "A", "B", "C", "D", "E", "F", "G", "H", "I", "J", "K", "L", "M",
               "N", "O", "P", "Q", "R", "S", "T", "U", "V", "W", "X", "Y", "Z", "<NA>">>
CharCode(ch) == CHOOSE i \in 1..Len(CharOrder) : CharOrder[i] = ch

\* Python's str < str
RECURSIVE TextLess(_, _)
TextLess(a, b) ==
    IF b = <<>> THEN FALSE
    ELSE IF a = <<>> THEN TRUE
    ELSE IF Head(a) = Head(b) THEN TextLess(Tail(a), Tail(b))
    ELSE CharCode(Head(a)) < CharCode(Head(b))

(***************************************************************************)
(* Column names and the synonym table.                                     *)
(***************************************************************************)
c_symbol == <<"s", "y", "m", "b", "o", "l">>
c_date == <<"d", "a", "t", "e">>
c_traded_qty == <<"t", "r", "a", "d", "e", "d", "_", "q", "t", "y">>
c_deliverable_qty == <<"d", "e", "l", "i", "v", "e", "r", "a", "b", "l", "e", "_", "q", "t", "y">>
c_delivery_pct == <<"d", "e", "l", "i", "v", "e", "r", "y", "_", "p", "c", "t">>
c_open == <<"o", "p", "e", "n">>
c_close == <<"c", "l", "o", "s", "e">>
c_net_value == <<"n", "e", "t", "_", "v", "a", "l", "u", "e">>

COL_MAP ==
       (<<"s", "y", "m", "b", "o", "l">> :> c_symbol)
    @@ (<<"d", "a", "t", "e">> :> c_date)
    @@ (<<"q", "t", "y", "_", "t", "r", "a", "d", "e", "d">> :> c_traded_qty)
    @@ (<<"t", "o", "t", "a", "l", "_", "t", "r", "a", "d", "e", "d", "_", "q", "u", "a", "n", "t", "i", "t", "y">> :> c_traded_qty)
    @@ (<<"t", "r", "a", "d", "e", "d", "_", "q", "t", "y">> :> c_traded_qty)
    @@ (<<"d", "e", "l", "i", "v", "e", "r", "a", "b", "l", "e", "_", "q", "t", "y">> :> c_deliverable_qty)
    @@ (<<"d", "e", "l", "i", "v", "e", "r", "e", "d", "_", "q", "t", "y">> :> c_deliverable_qty)
    @@ (<<"d", "e", "l", "i", "v", "e", "r", "y", "_", "p", "e", "r", "c", "e", "n", "t", "a", "g", "e">> :> c_delivery_pct)
    @@ (<<"d", "e", "l", "i", "v", "e", "r", "y", "_", "p", "e", "r", "c", "e", "n", "t">> :> c_delivery_pct)
    @@ (<<"%", "_", "d", "l", "y", "_", "q", "t", "_", "t", "o", "_", "t", "r", "a", "d", "e", "d", "_", "q", "t", "y">> :> c_delivery_pct)
    @@ (<<"d", "e", "l", "i", "v", "e", "r", "y", "_", "p", "c", "t">> :> c_delivery_pct)
    @@ (<<"o", "p", "e", "n", "_", "p", "r", "i", "c", "e">> :> c_open)
    @@ (<<"o", "p", "e", "n">> :> c_open)
    @@ (<<"c", "l", "o", "s", "e", "p", "r", "i", "c", "e">> :> c_close)
    @@ (<<"c", "l", "o", "s", "e", "_", "p", "r", "i", "c", "e">> :> c_close)
    @@ (<<"c", "l", "o", "s", "i", "n", "g", "_", "p", "r", "i", "c", "e">> :> c_close)
    @@ (<<"c", "l", "o", "s", "e">> :> c_close)

\* c.strip().lower().replace(" ", "_")
NormalizeHeader(c) == ReplaceChar(Lower(Strip(c)), " ", "_")

\* COL_MAP.get(c, c)
ColMapGet(c) == IF c \in DOMAIN COL_MAP THEN COL_MAP[c] ELSE c

\* df.columns after normalisation and renaming, in file order
RenamedColumns(columns) ==
    [i \in 1..Len(columns) |-> ColMapGet(NormalizeHeader(columns[i]))]

REQUIRED_Short == <<c_symbol, c_date, c_traded_qty, c_delivery_pct>>
REQUIRED == <<c_symbol, c_date, c_traded_qty, c_deliverable_qty, c_delivery_pct>>

\* [c for c in REQUIRED if c not in df.columns]
MissingColumns(columns) ==
    SelectSeq(REQUIRED, LAMBDA c : c \notin Range(RenamedColumns(columns)))

MissingPrefix == <<"M", "i", "s", "s", "i", "n", "g", " ", "c", "o", "l", "u", "m", "n", "(", "s", ")", ":", " ">>
CommaSpace == <<",", " ">>

\* f"Missing column(s): {', '.join(missing)}"
MissingMessage(missing) == MissingPrefix \o Join(missing, CommaSpace)

(***************************************************************************)
(* Numbers: pd.to_numeric(errors="coerce") and float division.             *)
(***************************************************************************)
NaN == [nan |-> TRUE, v |-> 0]
Num(x) == [nan |-> FALSE, v |-> x]

Digits == <<"0", "1", "2", "3", "4", "5", "6", "7", "8", "9">>
DigitOf == [ch \in Range(Digits) |-> (CHOOSE i \in 1..Len(Digits) : Digits[i] = ch) - 1]
IsDigit(ch) == ch \in DOMAIN DigitOf
DigitVal(ch) == DigitOf[ch]
AllDigits(s) == \A i \in 1..Len(s) : IsDigit(s[i])

RECURSIVE DigitsVal(_)
DigitsVal(s) ==
    IF s = <<>> THEN 0
    ELSE DigitsVal(SubSeq(s, 1, Len(s) - 1)) * 10 + DigitVal(s[Len(s)])

\* pd.to_numeric(errors="coerce") on one text cell: an optionally signed decimal
\* literal parses to its value (in hundredths), anything else becomes NaN.
ToNumeric(s) ==
    LET signed == s # <<>> /\ Head(s) \in {"-", "+"}
        body == IF signed THEN Tail(s) ELSE s
        dots == {i \in 1..Len(body) : body[i] = "."}
        dot == IF dots = {} THEN Len(body) + 1 ELSE CHOOSE i \in dots : TRUE
        ip == SubSeq(body, 1, dot - 1)
        fp == SubSeq(body, dot + 1, Len(body))
        frac == IF fp = <<>> THEN 0
                ELSE IF Len(fp) = 1 THEN DigitVal(fp[1]) * 10
                ELSE DigitVal(fp[1]) * 10 + DigitVal(fp[2])
        mag == DigitsVal(ip) * 100 + frac
    IN  IF Cardinality(dots) <= 1 /\ ip # <<>> /\ AllDigits(ip) /\ AllDigits(fp)
        THEN Num(IF signed /\ Head(s) = "-" THEN -mag ELSE mag)
        ELSE NaN

\* .astype(int) on a float: truncation toward zero
AsInt(x) == IF x >= 0 THEN x \div 100 ELSE -((-x) \div 100)

\* A quotient of two floats: an exact fraction n/d with d > 0 in lowest terms, or
\* NaN (0/0), or +-inf (x/0), as IEEE division gives without raising.
RECURSIVE GCD(_, _)
GCD(a, b) == IF b = 0 THEN a ELSE GCD(b, a % b)
Abs(x) == IF x < 0 THEN -x ELSE x

QNaN == [k |-> "nan", n |-> 0, d |-> 1]
QInf == [k |-> "inf", n |-> 1, d |-> 0]
QNegInf == [k |-> "inf", n |-> -1, d |-> 0]
Frac(a, b) ==
    LET g == GCD(Abs(a), Abs(b))
    IN  [k |-> "num", n |-> (IF b < 0 THEN -a ELSE a) \div g, d |-> Abs(b) \div g]

\* a / b on float columns
Div(a, b) ==
    IF b = 0 THEN (IF a = 0 THEN QNaN ELSE IF a > 0 THEN QInf ELSE QNegInf)
    ELSE Frac(a, b)

(***************************************************************************)
(* Dates: pd.to_datetime(errors="coerce") and the period starts.           *)
(***************************************************************************)
NaT == [y |-> 0, m |-> 0, d |-> 0]
Date(yy, mm, dd) == [y |-> yy, m |-> mm, d |-> dd]

IsLeap(y) == (y % 4 = 0 /\ y % 100 # 0) \/ y % 400 = 0
DaysInMonth(y, m) ==
    IF m = 2 THEN (IF IsLeap(y) THEN 29 ELSE 28)
    ELSE IF m \in {4, 6, 9, 11} THEN 30 ELSE 31

\* pd.to_datetime(errors="coerce") on one cell: an ISO YYYY-MM-DD text parses,
\* anything else (pd.NA included) is NaT.
ParseDate(s) ==
    IF /\ Len(s) = 10
       /\ s[5] = "-" /\ s[8] = "-"
       /\ AllDigits(SubSeq(s, 1, 4)) /\ AllDigits(SubSeq(s, 6, 7))
       /\ AllDigits(SubSeq(s, 9, 10))
    THEN LET y == DigitsVal(SubSeq(s, 1, 4))
             m == DigitsVal(SubSeq(s, 6, 7))
             d == DigitsVal(SubSeq(s, 9, 10))
         IN  IF y >= 1 /\ m \in 1..12 /\ d >= 1 /\ d <= DaysInMonth(y, m)
             THEN Date(y, m, d) ELSE NaT
    ELSE NaT

\* Days since 1970-01-01 of a date (the Timestamp's value).
Ordinal(dt) ==
    LET y == IF dt.m <= 2 THEN dt.y - 1 ELSE dt.y
        era == y \div 400
        yoe == y - era * 400
        mp == IF dt.m > 2 THEN dt.m - 3 ELSE dt.m + 9
        doy == (153 * mp + 2) \div 5 + dt.d - 1
        doe == yoe * 365 + yoe \div 4 - yoe \div 100 + doy
    IN  era * 146097 + doe - 719468

\* The date of a day number.
FromOrdinal(z0) ==
    LET z == z0 + 719468
        era == z \div 146097
        doe == z - era * 146097
        yoe == (doe - doe \div 1460 + doe \div 36524 - doe \div 146096) \div 365
        doy == doe - (365 * yoe + yoe \div 4 - yoe \div 100)
        mp == (5 * doy + 2) \div 153
        d == doy - (153 * mp + 2) \div 5 + 1
        m == IF mp < 10 THEN mp + 3 ELSE mp - 9
    IN  Date(IF m <= 2 THEN yoe + era * 400 + 1 ELSE yoe + era * 400, m, d)

DateLess(a, b) == Ordinal(a) < Ordinal(b)

\* Monday = 0 .. Sunday = 6
Weekday(dt) == (Ordinal(dt) + 3) % 7

\* dt.to_period("W").start_time: the Monday of the Monday-to-Sunday week
WeekStart(dt) == FromOrdinal(Ordinal(dt) - Weekday(dt))
\* dt.to_period("M").start_time
MonthStart(dt) == Date(dt.y, dt.m, 1)
\* dt.to_period("Q").start_time
QuarterStart(dt) == Date(dt.y, 3 * ((dt.m - 1) \div 3) + 1, 1)
\* get_half_year(d)
get_half_year(dt) == IF dt.m <= 6 THEN Date(dt.y, 1, 1) ELSE Date(dt.y, 7, 1)
\* dt.to_period("Y").start_time
YearStart(dt) == Date(dt.y, 1, 1)

(***************************************************************************)
(* The uploaded files.                                                     *)
(* A raw file is [name, columns, rows]: the header texts as written in the *)
(* file and the rows of text cells, one cell per column.  The batch is     *)
(* drawn from sample rows and sample column layouts: spellings that need   *)
(* trimming, lower-casing and the synonym table, a layout with no price    *)
(* columns and an unknown column, and layouts that lack required columns.  *)
(***************************************************************************)
c_week == <<"w", "e", "e", "k">>
c_month == <<"m", "o", "n", "t", "h">>
c_quarter == <<"q", "u", "a", "r", "t", "e", "r">>
c_half_year == <<"h", "a", "l", "f", "_", "y", "e", "a", "r">>
c_year == <<"y", "e", "a", "r">>
c_traded_qty_chg == <<"t", "r", "a", "d", "e", "d", "_", "q", "t", "y", "_", "c", "h", "g", "_", "%">>
c_deliverable_qty_chg == <<"d", "e", "l", "i", "v", "e", "r", "a", "b", "l", "e", "_", "q", "t", "y", "_", "c", "h", "g", "_", "%">>
c_net_value_crore == <<"n", "e", "t", "_", "v", "a", "l", "u", "e", "_", "c", "r", "o", "r", "e">>

BaseColumns ==
    << <<" ", "S", "y", "m", "b", "o", "l">>,
       <<"D", "a", "t", "e">>,
       <<"Q", "t", "y", " ", "T", "r", "a", "d", "e", "d">>,
       <<"D", "e", "l", "i", "v", "e", "r", "a", "b", "l", "e", " ", "Q", "t", "y">>,
       <<"%", " ", "D", "l", "y", " ", "Q", "t", " ", "t", "o", " ", "T", "r", "a", "d", "e", "d", " ", "Q", "t", "y">>,
       <<"O", "p", "e", "n", " ", "P", "r", "i", "c", "e">>,
       <<"C", "l", "o", "s", "e", " ", "P", "r", "i", "c", "e", " ">>,
       <<"V", "o", "l", "u", "m", "e">> >>

\* Rows as written in a file with all of BaseColumns: symbol, date, traded,
\* deliverable, delivery %, open, close, volume.
PoolRows ==
    << << <<"A", "A", "A">>, <<"2", "0", "2", "4", "-", "0", "1", "-", "0", "1">>, <<"1", ",", "0", "0", "0">>, <<"5", "0", "0">>, <<"5", "0", "%">>, <<"1", "0", "0", "0", "0">>, <<"1", "0", "1", "0", "0">>, <<"7">> >>,
       << <<"A", "A", "A">>, <<"2", "0", "2", "4", "-", "0", "1", "-", "0", "8">>, <<"2", ",", "0", "0", "0">>, <<"1", "0", "0", "0">>, <<"7", "5", "%">>, <<"1", "0", "0", "0", "0", ".", "5", "0">>, <<"-">>, <<"7">> >>,
       << <<"A", "A", "A">>, <<"2", "0", "2", "4", "-", "0", "1", "-", "0", "1">>, <<"0">>, <<"5">>, <<"8", "0", "%">>, <<"-">>, <<"1", "0">>, <<"7">> >>,
       << <<"B", "B", "B">>, <<"2", "0", "2", "4", "-", "0", "1", "-", "0", "1">>, <<"4", "0", "0">>, <<"3", "0", "0">>, <<"7", "5", "%">>, <<"2", "0", "0", "0", "0">>, <<"-">>, <<"7">> >>,
       << <<"-">>, <<"2", "0", "2", "4", "-", "0", "7", "-", "0", "1">>, <<"1", "0", "0">>, <<"6", "0">>, <<"6", "0", "%">>, <<"1", "0", "0">>, <<"1", "0", "0">>, <<"7">> >>,
       << <<"A", "A", "A">>, <<"n", "o", "t", "-", "a", "-", "d", "a", "t", "e">>, <<"1", "0", "0">>, <<"5", "0">>, <<"5", "0", "%">>, <<"1", "0", "0">>, <<"1", "0", "0">>, <<"7">> >>,
       << <<"B", "B", "B">>, <<"2", "0", "2", "3", "-", "1", "2", "-", "3", "1">>, <<"a", "b", "c">>, <<"5", "0">>, <<"1", "2", "0", ".", "5", "%">>, <<"1", "0", "0">>, <<"1", "0", "0">>, <<"7">> >> >>

FullLayout == <<1, 2, 3, 4, 5, 6, 7>>
NoPriceLayout == <<1, 2, 3, 4, 5, 8>>
NoDeliverableLayout == <<1, 2, 3, 5, 6>>
BareLayout == <<2, 8>>

BadLayouts == {NoDeliverableLayout, BareLayout}

RowChoices == UNION {[1..n -> 1..Len(PoolRows)] : n \in 0..MaxRows}

FileBody(layout, choice) ==
    [columns |-> [i \in 1..Len(layout) |-> BaseColumns[layout[i]]],
     rows |-> [j \in 1..Len(choice) |->
                 [i \in 1..Len(layout) |-> PoolRows[choice[j]][layout[i]]]]]

\* Every choice of rows in the full layout; in the other layouts, which differ
\* in the header only, the first two sample rows.
FileBodies ==
    {FileBody(FullLayout, c) : c \in RowChoices}
        \cup {FileBody(NoPriceLayout, c) : c \in {<<>>, <<1>>, <<1, 2>>}}
        \cup {FileBody(l, <<1>>) : l \in BadLayouts}

\* up.name of the k-th upload
FileName(k) == <<"f", Digits[k + 1], ".", "c", "s", "v">>

Batches ==
    UNION {{[k \in 1..n |-> [name |-> FileName(k), columns |-> b[k].columns,
                             rows |-> b[k].rows]] : b \in [1..n -> FileBodies]}
           : n \in 0..MaxFiles}

(***************************************************************************)
(* load_and_clean.                                                         *)
(***************************************************************************)
\* the tokens df.replace turns into pd.NA: "-", "NA", "N/A", "na", ""
SENTINELS == {<<"-">>, <<"N", "A">>, <<"N", "/", "A">>, <<"n", "a">>, <<>>}

\* df.replace(["-", "NA", "N/A", "na", ""], pd.NA) on one cell
ReplaceSentinels(cell) == IF cell \in SENTINELS THEN NA ELSE cell

HasColumn(cols, c) == c \in Range(cols)

\* df[c]: the position of the column named c
ColumnIndex(cols, c) == CHOOSE i \in 1..Len(cols) : cols[i] = c

\* .astype(str).str.replace(",", "").str.replace("%", "").replace("", pd.NA),
\* then pd.to_numeric(errors="coerce")
CleanNumeric(cell) ==
    LET t == RemoveChar(RemoveChar(cell, ","), "%")
    IN  ToNumeric(IF t = <<>> THEN NA ELSE t)

\* Lines 79-81: the sentinels become pd.NA in every column, the date column is
\* parsed, and the rows without a date are dropped.
WithDates(cols, rows) ==
    LET di == ColumnIndex(cols, c_date)
        all == [i \in 1..Len(rows) |->
                   LET cells == [k \in 1..Len(cols) |-> ReplaceSentinels(rows[i][k])]
                   IN  [cells |-> cells, date |-> ParseDate(cells[di])]]
    IN  SelectSeq(all, LAMBDA r : r.date # NaT)

\* Lines 83-97: the numeric columns that are present are converted; a column the
\* file does not have reads as NaN after the concat.
WithNumerics(cols, rows) ==
    LET Ix(c) == IF HasColumn(cols, c) THEN ColumnIndex(cols, c) ELSE 0
        si == Ix(c_symbol)
        ti == Ix(c_traded_qty)
        qi == Ix(c_deliverable_qty)
        pi == Ix(c_delivery_pct)
        oi == Ix(c_open)
        ci == Ix(c_close)
        NumAt(cells, k) == IF k = 0 THEN NaN ELSE CleanNumeric(cells[k])
    IN  [i \in 1..Len(rows) |->
            [symbol |-> rows[i].cells[si],
             date |-> rows[i].date,
             traded_qty |-> NumAt(rows[i].cells, ti),
             deliverable_qty |-> NumAt(rows[i].cells, qi),
             delivery_pct |-> NumAt(rows[i].cells, pi),
             open |-> NumAt(rows[i].cells, oi),
             close |-> NumAt(rows[i].cells, ci)]]

\* dropna(subset=[...]) after the numeric conversion (line 99)
DropnaSubsetWithOpen == <<"traded_qty", "deliverable_qty", "delivery_pct", "open">>
DropnaSubset == <<"traded_qty", "deliverable_qty", "delivery_pct">>

Dropna(rows) ==
    SelectSeq(rows, LAMBDA r : \A i \in 1..Len(DropnaSubset) : ~r[DropnaSubset[i]].nan)

\* Lines 100-106: the quantities cast to int, net_value = deliverable_qty * open
\* where the file has an open column, pd.NA otherwise.
WithNetValue(cols, rows) ==
    [i \in 1..Len(rows) |->
        LET deliverable == AsInt(rows[i].deliverable_qty.v)
        IN  [symbol |-> rows[i].symbol,
             date |-> rows[i].date,
             traded_qty |-> AsInt(rows[i].traded_qty.v),
             deliverable_qty |-> deliverable,
             delivery_pct |-> rows[i].delivery_pct.v,
             open |-> rows[i].open,
             close |-> rows[i].close,
             net_value |-> IF HasColumn(cols, c_open) /\ ~rows[i].open.nan
                           THEN Num(deliverable * rows[i].open.v) ELSE NaN]]

CleanRows(cols, rows) ==
    WithNetValue(cols, Dropna(WithNumerics(cols, WithDates(cols, rows))))

\* The table load_and_clean returns for a raw file that has the required columns.
load_and_clean(raw) ==
    LET cols == RenamedColumns(raw.columns)
    IN  [cols |-> Range(cols) \cup {c_net_value}, rows |-> CleanRows(cols, raw.rows)]

(***************************************************************************)
(* Merge: concat, drop_duplicates, sort_values.                            *)
(***************************************************************************)
EmptyTable == [cols |-> {}, rows |-> <<>>]

\* pd.concat(dfs, ignore_index=True)
RECURSIVE Concat(_)
Concat(tables) ==
    IF tables = <<>> THEN EmptyTable
    ELSE LET rest == Concat(Tail(tables))
         IN  [cols |-> Head(tables).cols \cup rest.cols,
              rows |-> Head(tables).rows \o rest.rows]

SameKey(a, b) == a.symbol = b.symbol /\ a.date = b.date

\* drop_duplicates(subset=["symbol", "date"]) with keep="last"
DropDuplicatesKeepLast(rows) ==
    LET keep == {i \in 1..Len(rows) :
                    \A j \in (i + 1)..Len(rows) : ~SameKey(rows[j], rows[i])}
        Pick[i \in 0..Len(rows)] ==
            IF i = 0 THEN <<>>
            ELSE IF i \in keep THEN Append(Pick[i - 1], rows[i]) ELSE Pick[i - 1]
    IN  Pick[Len(rows)]

\* drop_duplicates(subset=["symbol", "date"]): keep="first" is the default
DropDuplicates(rows) ==
    LET keep == {i \in 1..Len(rows) :
                    \A j \in 1..(i - 1) : ~SameKey(rows[j], rows[i])}
        Pick[i \in 0..Len(rows)] ==
            IF i = 0 THEN <<>>
            ELSE IF i \in keep THEN Append(Pick[i - 1], rows[i]) ELSE Pick[i - 1]
    IN  Pick[Len(rows)]

RemoveAt(s, i) == SubSeq(s, 1, i - 1) \o SubSeq(s, i + 1, Len(s))

\* sort_values("date"): kind defaults to "quicksort", which is not stable, so rows
\* of equal date may come out in any order.  The set of possible outcomes.
RECURSIVE SortValuesDate(_)
SortValuesDate(rows) ==
    IF rows = <<>> THEN {<<>>}
    ELSE LET mins == {k \in 1..Len(rows) :
                         \A j \in 1..Len(rows) : ~DateLess(rows[j].date, rows[k].date)}
         IN  UNION {{<<rows[i]>> \o rest : rest \in SortValuesDate(RemoveAt(rows, i))}
                    : i \in mins}

(***************************************************************************)
(* Sorting, grouping and the derived columns.                              *)
(***************************************************************************)
\* Order of the symbol column: text order, NaN last.
SymbolLess(a, b) ==
    IF a = NA THEN FALSE ELSE IF b = NA THEN TRUE ELSE TextLess(a, b)

\* Row order of sort_values(["symbol", col]): symbol first, then the date in col.
RowLess(a, b, col) ==
    \/ SymbolLess(a.symbol, b.symbol)
    \/ a.symbol = b.symbol /\ DateLess(a[col], b[col])

\* sort_values(["symbol", col]); (symbol, col) pairs are unique in every table
\* the script sorts this way, except for rows of equal date and null symbol,
\* which keep their order.
SortBySymbolThen(rows, col) ==
    LET n == Len(rows)
        Rank(i) == Cardinality({j \in 1..n :
                       \/ RowLess(rows[j], rows[i], col)
                       \/ ~RowLess(rows[i], rows[j], col) /\ j < i})
    IN  [k \in 1..n |-> rows[CHOOSE i \in 1..n : Rank(i) = k - 1]]

\* .sum() of an integer column over the rows of one group
RECURSIVE SumField(_, _)
SumField(rows, f) ==
    IF rows = <<>> THEN 0 ELSE Head(rows)[f] + SumField(Tail(rows), f)

\* .sum() of the net_value column over the rows of one group: NaN is skipped
RECURSIVE SumNetValue(_)
SumNetValue(rows) ==
    IF rows = <<>> THEN 0
    ELSE (IF Head(rows).net_value.nan THEN 0 ELSE Head(rows).net_value.v)
             + SumNetValue(Tail(rows))

\* df.groupby([col, "symbol"], as_index=False)[["traded_qty", "deliverable_qty",
\* "net_value"]].sum(): one row per (col, symbol) in key order; rows whose symbol
\* is NaN belong to no group.
GroupBySum(rows, col) ==
    LET valid == SelectSeq(rows, LAMBDA r : r.symbol # NA)
        keys == {<<valid[i][col], valid[i].symbol>> : i \in 1..Len(valid)}
        Group(k) == SelectSeq(valid, LAMBDA r : r[col] = k[1] /\ r.symbol = k[2])
        KeyLess(a, b) ==
            \/ DateLess(a[1], b[1])
            \/ a[1] = b[1] /\ SymbolLess(a[2], b[2])
        Rank(k) == Cardinality({j \in keys : KeyLess(j, k)})
        ordered == [i \in 1..Cardinality(keys) |->
                       CHOOSE k \in keys : Rank(k) = i - 1]
    IN  [i \in 1..Len(ordered) |->
            (col :> ordered[i][1]) @@
            [symbol |-> ordered[i][2],
             traded_qty |-> SumField(Group(ordered[i]), "traded_qty"),
             deliverable_qty |-> SumField(Group(ordered[i]), "deliverable_qty"),
             net_value |-> Num(SumNetValue(Group(ordered[i])))]]

\* agg["delivery_pct"] = 100 * agg["deliverable_qty"] / agg["traded_qty"]
WithDeliveryPct(rows) ==
    [i \in 1..Len(rows) |->
        rows[i] @@ [delivery_pct |-> Div(100 * rows[i].deliverable_qty,
                                        rows[i].traded_qty)]]

\* [f].pct_change() * 100 without the groupby: the change against the row above
PctChangeUngrouped(rows, f) ==
    [i \in 1..Len(rows) |->
        IF rows[i].symbol = NA \/ i = 1 THEN QNaN
        ELSE Div((rows[i][f] - rows[i - 1][f]) * 100, rows[i - 1][f])]

\* groupby("symbol")[f].pct_change() * 100, row by row: the change against the
\* previous row of the same symbol; NaN for the first row of a symbol and for the
\* rows whose symbol is NaN.
PctChange(rows, f) ==
    [i \in 1..Len(rows) |->
        LET prevs == {j \in 1..(i - 1) : rows[j].symbol = rows[i].symbol}
        IN  IF rows[i].symbol = NA \/ prevs = {} THEN QNaN
            ELSE LET p == rows[CHOOSE j \in prevs : \A q \in prevs : q <= j][f]
                 IN  Div((rows[i][f] - p) * 100, p)]

\* The two change columns added to rows already sorted by symbol and period.
WithChanges(rows) ==
    LET t == PctChange(rows, "traded_qty")
        d == PctChange(rows, "deliverable_qty")
    IN  [i \in 1..Len(rows) |->
            rows[i] @@ [traded_qty_chg |-> t[i], deliverable_qty_chg |-> d[i]]]

\* df[col] = df["date"] mapped to the start of its period
PeriodStart(col, dt) ==
    CASE col = "week" -> WeekStart(dt)
      [] col = "month" -> MonthStart(dt)
      [] col = "quarter" -> QuarterStart(dt)
      [] col = "half_year" -> get_half_year(dt)
      [] col = "year" -> YearStart(dt)

WithPeriod(rows, col) ==
    [i \in 1..Len(rows) |-> (col :> PeriodStart(col, rows[i].date)) @@ rows[i]]

AggCols(col) == {col, c_symbol, c_traded_qty, c_deliverable_qty, c_net_value,
                 c_delivery_pct}
ChangeCols == {c_traded_qty_chg, c_deliverable_qty_chg}

\* Weekly and monthly tables: sums, delivery %, sorted by symbol and period,
\* with the change columns.
AggregateWithChanges(rows, col, cname) ==
    [cols |-> AggCols(cname) \cup ChangeCols,
     rows |-> WithChanges(SortBySymbolThen(WithDeliveryPct(GroupBySum(rows, col)), col))]

\* Quarterly, half-yearly and yearly tables: sums and delivery % only, in group
\* key order.
AggregatePlain(rows, col, cname) ==
    [cols |-> AggCols(cname), rows |-> WithDeliveryPct(GroupBySum(rows, col))]

(***************************************************************************)
(* Spike filter and net-value highlighting.                                *)
(***************************************************************************)
SpikeRowsStrict(rows, thr) == SelectSeq(rows, LAMBDA r : r.delivery_pct > thr)
\* df[df["delivery_pct"] >= spike_thr]
SpikeRows(rows, thr) == SelectSeq(rows, LAMBDA r : r.delivery_pct >= thr)

\* round(): to the nearest integer multiple of d, halves to even
RoundHalfEven(n, d) ==
    LET q == n \div d
        r == n - q * d
    IN  IF 2 * r < d THEN q
        ELSE IF 2 * r > d THEN q + 1
        ELSE IF q % 2 = 0 THEN q ELSE q + 1

\* (net_value / 1e7).round(2), in hundredths of a crore; net_value counts
\* hundredths of a rupee
NetValueCrore(nv) ==
    IF nv.nan THEN NaN ELSE Num(RoundHalfEven(nv.v, 10000000))

HighlightStyle == "background-color: #ffe6e6; font-weight: bold"

\* highlight_net_value(val), with net_value_thr passed in
highlight_net_value(val, thr) ==
    IF ~val.nan /\ val.v > thr THEN HighlightStyle ELSE ""

\* daily_disp[daily_columns].style.applymap(highlight_net_value,
\*                                          subset=["net_value_crore"])
StyledDaily(rows, thr) ==
    [i \in 1..Len(rows) |->
        LET crore == NetValueCrore(rows[i].net_value)
        IN  [date |-> rows[i].date, symbol |-> rows[i].symbol,
             delivery_pct |-> rows[i].delivery_pct,
             net_value_crore |-> crore,
             style |-> highlight_net_value(crore, thr)]]

(***************************************************************************)
(* The script, section by section.                                         *)
(***************************************************************************)
\* Slider positions the run may read (spike: 60.0 and 75.0 %; net value: 0.5
\* and 1.0 crore).
SpikeThresholds == {6000, 7500}
NetValueThresholds == {50, 100}

NoError == [raised |-> FALSE, message |-> <<>>]
Unset == -1

Init ==
    /\ uploaded_files \in Batches
    /\ pc = "load"
    /\ dfs = <<>>
    /\ error = NoError
    /\ df = EmptyTable
    /\ spike_thr = Unset
    /\ net_value_thr = Unset
    /\ spikes = <<>>
    /\ styled_df = <<>>
    /\ weekly = EmptyTable
    /\ monthly = EmptyTable
    /\ quarterly = EmptyTable
    /\ half_yearly = EmptyTable
    /\ yearly = EmptyTable

\* if not uploaded_files: st.stop()
StopWithoutFiles ==
    /\ pc = "load"
    /\ uploaded_files = <<>>
    /\ pc' = "stopped"
    /\ UNCHANGED <<uploaded_files, dfs, error, df, spike_thr, net_value_thr, spikes,
                   styled_df, weekly, monthly, quarterly, half_yearly, yearly>>

\* One turn of "for up in uploaded_files": load_and_clean returns a table.
LoadFile ==
    /\ pc = "load"
    /\ Len(dfs) < Len(uploaded_files)
    /\ LET raw == uploaded_files[Len(dfs) + 1]
       IN  /\ MissingColumns(raw.columns) = <<>>
           /\ dfs' = Append(dfs, load_and_clean(raw))
    /\ UNCHANGED <<uploaded_files, pc, error, df, spike_thr, net_value_thr, spikes,
                   styled_df, weekly, monthly, quarterly, half_yearly, yearly>>

\* One turn of the loop in which load_and_clean raises ValueError; nothing
\* catches it, so the run ends there.
LoadFileRaises ==
    /\ pc = "load"
    /\ Len(dfs) < Len(uploaded_files)
    /\ LET raw == uploaded_files[Len(dfs) + 1]
       IN  /\ MissingColumns(raw.columns) # <<>>
           /\ error' = [raised |-> TRUE,
                        message |-> MissingMessage(MissingColumns(raw.columns))]
    /\ pc' = "failed"
    /\ UNCHANGED <<uploaded_files, dfs, df, spike_thr, net_value_thr, spikes,
                   styled_df, weekly, monthly, quarterly, half_yearly, yearly>>

\* df = pd.concat(dfs).drop_duplicates(["symbol", "date"]).sort_values("date")
Merge ==
    /\ pc = "load"
    /\ uploaded_files # <<>>
    /\ Len(dfs) = Len(uploaded_files)
    /\ \E sorted \in SortValuesDate(DropDuplicates(Concat(dfs).rows)) :
           df' = [cols |-> Concat(dfs).cols, rows |-> sorted]
    /\ pc' = "sliders"
    /\ UNCHANGED <<uploaded_files, dfs, error, spike_thr, net_value_thr, spikes,
                   styled_df, weekly, monthly, quarterly, half_yearly, yearly>>

\* spike_thr = st.sidebar.slider(...); net_value_thr = st.sidebar.slider(...)
ReadSliders ==
    /\ pc = "sliders"
    /\ spike_thr' \in SpikeThresholds
    /\ net_value_thr' \in NetValueThresholds
    /\ pc' = "spikes"
    /\ UNCHANGED <<uploaded_files, dfs, error, df, spikes, styled_df, weekly,
                   monthly, quarterly, half_yearly, yearly>>

\* spikes = df[df["delivery_pct"] >= spike_thr]
SpikeAlerts ==
    /\ pc = "spikes"
    /\ spikes' = SpikeRows(df.rows, spike_thr)
    /\ pc' = "daily"
    /\ UNCHANGED <<uploaded_files, dfs, error, df, spike_thr, net_value_thr,
                   styled_df, weekly, monthly, quarterly, half_yearly, yearly>>

\* Daily table: df sorted by symbol and date, the change columns, the styled view.
Daily ==
    /\ pc = "daily"
    /\ df' = [cols |-> df.cols \cup ChangeCols,
              rows |-> WithChanges(SortBySymbolThen(df.rows, "date"))]
    /\ styled_df' = StyledDaily(df'.rows, net_value_thr)
    /\ pc' = "weekly"
    /\ UNCHANGED <<uploaded_files, dfs, error, spike_thr, net_value_thr, spikes,
                   weekly, monthly, quarterly, half_yearly, yearly>>

Weekly ==
    /\ pc = "weekly"
    /\ df' = [cols |-> df.cols \cup {c_week},
              rows |-> WithPeriod(df.rows, "week")]
    /\ weekly' = AggregateWithChanges(df'.rows, "week", c_week)
    /\ pc' = "monthly"
    /\ UNCHANGED <<uploaded_files, dfs, error, spike_thr, net_value_thr, spikes,
                   styled_df, monthly, quarterly, half_yearly, yearly>>

Monthly ==
    /\ pc = "monthly"
    /\ df' = [cols |-> df.cols \cup {c_month},
              rows |-> WithPeriod(df.rows, "month")]
    /\ monthly' = AggregateWithChanges(df'.rows, "month", c_month)
    /\ pc' = "quarterly"
    /\ UNCHANGED <<uploaded_files, dfs, error, spike_thr, net_value_thr, spikes,
                   styled_df, weekly, quarterly, half_yearly, yearly>>

Quarterly ==
    /\ pc = "quarterly"
    /\ df' = [cols |-> df.cols \cup {c_quarter},
              rows |-> WithPeriod(df.rows, "quarter")]
    /\ quarterly' = AggregatePlain(df'.rows, "quarter", c_quarter)
    /\ pc' = "half_yearly"
    /\ UNCHANGED <<uploaded_files, dfs, error, spike_thr, net_value_thr, spikes,
                   styled_df, weekly, monthly, half_yearly, yearly>>

HalfYearly ==
    /\ pc = "half_yearly"
    /\ df' = [cols |-> df.cols \cup {c_half_year},
              rows |-> WithPeriod(df.rows, "half_year")]
    /\ half_yearly' = AggregatePlain(df'.rows, "half_year", c_half_year)
    /\ pc' = "yearly"
    /\ UNCHANGED <<uploaded_files, dfs, error, spike_thr, net_value_thr, spikes,
                   styled_df, weekly, monthly, quarterly, yearly>>

Yearly ==
    /\ pc = "yearly"
    /\ df' = [cols |-> df.cols \cup {c_year},
              rows |-> WithPeriod(df.rows, "year")]
    /\ yearly' = AggregatePlain(df'.rows, "year", c_year)
    /\ pc' = "done"
    /\ UNCHANGED <<uploaded_files, dfs, error, spike_thr, net_value_thr, spikes,
                   styled_df, weekly, monthly, quarterly, half_yearly>>

Next ==
    \/ StopWithoutFiles
    \/ LoadFile
    \/ LoadFileRaises
    \/ Merge
    \/ ReadSliders
    \/ SpikeAlerts
    \/ Daily
    \/ Weekly
    \/ Monthly
    \/ Quarterly
    \/ HalfYearly
    \/ Yearly

Spec == Init /\ [][Next]_vars

(***************************************************************************)
(* Properties.                                                             *)
(***************************************************************************)
Merged == pc \notin {"load", "stopped", "failed"}

\* The columns a cleaned row has when load_and_clean returns it.
Base(r) ==
    [symbol |-> r.symbol, date |-> r.date, traded_qty |-> r.traded_qty,
     deliverable_qty |-> r.deliverable_qty, delivery_pct |-> r.delivery_pct,
     open |-> r.open, close |-> r.close, net_value |-> r.net_value]

\* The cleaned rows of all files in concatenation order: file by file in upload
\* order, each file's rows in their own order.
AllCleanRows ==
    LET Flat[k \in 0..Len(dfs)] ==
            IF k = 0 THEN <<>> ELSE Flat[k - 1] \o dfs[k].rows
    IN  Flat[Len(dfs)]

\* C1: the merged table holds at most one row per (symbol, date); every key of
\* the input survives, and the surviving row of a key is the row that comes
\* first in concatenation order (earliest file, then earliest row).
C1_MergedKeysUniqueFirstWins ==
    Merged =>
        LET all == AllCleanRows
            rows == df.rows
        IN  /\ \A i, j \in 1..Len(rows) : i # j => ~SameKey(rows[i], rows[j])
            /\ \A i \in 1..Len(all) : \E j \in 1..Len(rows) : SameKey(rows[j], all[i])
            /\ \A j \in 1..Len(rows) :
                   \E i \in 1..Len(all) :
                       /\ SameKey(all[i], rows[j])
                       /\ \A h \in 1..(i - 1) : ~SameKey(all[h], rows[j])
                       /\ Base(rows[j]) = all[i]

\* Two files were merged whose rows share a key with different quantities, the
\* first file's row being the one in the merged table.
C1_Witness ==
    /\ pc = "sliders"
    /\ Len(dfs) = 2
    /\ \E a \in 1..Len(dfs[1].rows), b \in 1..Len(dfs[2].rows) :
           /\ SameKey(dfs[1].rows[a], dfs[2].rows[b])
           /\ dfs[1].rows[a].traded_qty # dfs[2].rows[b].traded_qty
           /\ \E j \in 1..Len(df.rows) : df.rows[j] = dfs[1].rows[a]

\* The required fields, in the order the error message lists them.
RequiredFields ==
    <<c_symbol, c_date, c_traded_qty, c_deliverable_qty, c_delivery_pct>>

\* The required fields absent from a raw file's header after trimming,
\* lower-casing, replacing spaces by underscores and the synonym lookup.
AbsentFields(raw) ==
    LET present == {ColMapGet(ReplaceChar(Lower(Strip(raw.columns[i])), " ", "_"))
                       : i \in 1..Len(raw.columns)}
    IN  SelectSeq(RequiredFields, LAMBDA c : c \notin present)

\* C2: load_and_clean raises the schema error for a file if and only if a
\* required field is absent from its normalised header; the message names
\* exactly the absent fields; a file that raised contributes no cleaned table.
C2_SchemaErrorIffRequiredMissing ==
    /\ \A k \in 1..Len(dfs) : AbsentFields(uploaded_files[k]) = <<>>
    /\ error.raised <=> pc = "failed"
    /\ error.raised =>
           /\ Len(dfs) < Len(uploaded_files)
           /\ AbsentFields(uploaded_files[Len(dfs) + 1]) # <<>>
           /\ error.message =
                  MissingPrefix \o
                      Join(AbsentFields(uploaded_files[Len(dfs) + 1]), CommaSpace)
    /\ (pc = "load" /\ ~ENABLED LoadFileRaises) =>
           (Len(dfs) < Len(uploaded_files)
               => AbsentFields(uploaded_files[Len(dfs) + 1]) = <<>>)
    /\ Merged => Len(dfs) = Len(uploaded_files)

\* The second file lacks only the deliverable-quantity column: the first file was
\* cleaned, the second raised, and the message names deliverable_qty alone.
C2_Witness ==
    /\ pc = "failed"
    /\ Len(dfs) = 1
    /\ error.message = MissingPrefix \o c_deliverable_qty

\* The raw rows of a file that C3 says survive cleaning, in file order.
RowsThatParse(raw) ==
    LET cols == RenamedColumns(raw.columns)
        At(row, c) == row[ColumnIndex(cols, c)]
    IN  SelectSeq(raw.rows, LAMBDA row :
            /\ ParseDate(At(row, c_date)) # NaT
            /\ ~CleanNumeric(At(row, c_traded_qty)).nan
            /\ ~CleanNumeric(At(row, c_deliverable_qty)).nan
            /\ ~CleanNumeric(At(row, c_delivery_pct)).nan)

\* C3: the cleaned table of a file is exactly its raw rows whose date parses and
\* whose traded_qty, deliverable_qty and delivery_pct parse, in file order; the
\* other rows are dropped without an error, and a null open or close drops
\* nothing.
C3_CleanedRowsAreTheParsableRows ==
    \A k \in 1..Len(dfs) :
        LET raw == uploaded_files[k]
            cols == RenamedColumns(raw.columns)
            want == RowsThatParse(raw)
            got == dfs[k].rows
        IN  /\ Len(got) = Len(want)
            /\ \A i \in 1..Len(got) :
                   /\ got[i].date = ParseDate(want[i][ColumnIndex(cols, c_date)])
                   /\ got[i].symbol \in
                          {want[i][ColumnIndex(cols, c_symbol)], NA}
                   /\ Num(got[i].delivery_pct) =
                          CleanNumeric(want[i][ColumnIndex(cols, c_delivery_pct)])
                   /\ got[i].traded_qty =
                          AsInt(CleanNumeric(want[i][ColumnIndex(cols, c_traded_qty)]).v)
                   /\ got[i].deliverable_qty =
                          AsInt(CleanNumeric(
                                    want[i][ColumnIndex(cols, c_deliverable_qty)]).v)

\* A file with an open column lost exactly one of its two rows, and the row it
\* kept has a null open.
C3_Witness ==
    \E k \in 1..Len(dfs) :
        /\ c_open \in dfs[k].cols
        /\ Len(uploaded_files[k].rows) = 2
        /\ Len(dfs[k].rows) = 1
        /\ dfs[k].rows[1].open.nan

\* The aggregate tables with the name of their period column.
AggregateTables ==
    <<[table |-> weekly, col |-> "week"],
      [table |-> monthly, col |-> "month"],
      [table |-> quarterly, col |-> "quarter"],
      [table |-> half_yearly, col |-> "half_year"],
      [table |-> yearly, col |-> "year"]>>

\* The sum of column f over the rows whose symbol is s.
SumOfSymbol(rows, f, s) ==
    LET S[i \in 0..Len(rows)] ==
            IF i = 0 THEN 0
            ELSE S[i - 1] + (IF rows[i].symbol = s THEN rows[i][f] ELSE 0)
    IN  S[Len(rows)]

\* The buckets of an aggregate table that a row of df belongs to.
BucketsOf(agg, r) ==
    {b \in 1..Len(agg.table.rows) :
        /\ agg.table.rows[b][agg.col] = r[agg.col]
        /\ agg.table.rows[b].symbol = r.symbol}

\* C4: for every granularity and every symbol the bucket sums of traded_qty and
\* deliverable_qty equal the sums over that symbol's daily rows, every row of
\* the merged table being counted in exactly one bucket.
C4_EveryRowInExactlyOneBucket ==
    pc = "done" =>
        \A a \in 1..Len(AggregateTables) :
            LET agg == AggregateTables[a]
            IN  /\ \A i \in 1..Len(df.rows) :
                       Cardinality(BucketsOf(agg, df.rows[i])) = 1
                /\ \A i \in 1..Len(df.rows) :
                       LET s == df.rows[i].symbol
                       IN  /\ SumOfSymbol(agg.table.rows, "traded_qty", s)
                                 = SumOfSymbol(df.rows, "traded_qty", s)
                           /\ SumOfSymbol(agg.table.rows, "deliverable_qty", s)
                                 = SumOfSymbol(df.rows, "deliverable_qty", s)

\* What does hold: the sums reconcile for every symbol that is not null.
BucketSumsReconcilePerSymbol ==
    pc = "done" =>
        \A a \in 1..Len(AggregateTables), i \in 1..Len(df.rows) :
            LET agg == AggregateTables[a]
                s == df.rows[i].symbol
            IN  s # NA =>
                    /\ Cardinality(BucketsOf(agg, df.rows[i])) = 1
                    /\ SumOfSymbol(agg.table.rows, "traded_qty", s)
                          = SumOfSymbol(df.rows, "traded_qty", s)
                    /\ SumOfSymbol(agg.table.rows, "deliverable_qty", s)
                          = SumOfSymbol(df.rows, "deliverable_qty", s)

\* The six tables of the dashboard: the daily table is df itself.
AllTables == <<[table |-> df, col |-> "date"]>> \o AggregateTables

\* 100 * (current - previous) / previous against the previous row of the same
\* symbol; null for a symbol's first row.  A zero previous value is left open,
\* and so are the rows that have no symbol.
ChangeIsRight(rows, i, f, chg) ==
    LET prevs == {j \in 1..(i - 1) : rows[j].symbol = rows[i].symbol}
    IN  rows[i].symbol # NA =>
            IF prevs = {} THEN chg = QNaN
            ELSE LET p == rows[CHOOSE j \in prevs : \A q \in prevs : q <= j][f]
                 IN  p # 0 => chg = Frac(100 * (rows[i][f] - p), p)

C6_ZeroTradedSumGivesNaN ==
    \A a \in 1..Len(AggregateTables) :
        LET rows == AggregateTables[a].table.rows
        IN  \A i \in 1..Len(rows) :
                IF rows[i].traded_qty # 0
                THEN rows[i].delivery_pct
                         = Frac(100 * rows[i].deliverable_qty, rows[i].traded_qty)
                ELSE rows[i].delivery_pct = QNaN

C8_SchemaErrorNamesItsFile ==
    error.raised =>
        Contains(error.message, uploaded_files[Len(dfs) + 1].name)

\* C9: no row of a cleaned table, and so none of the merged table, has a null or
\* empty symbol.
C9_SymbolNeverNull ==
    /\ \A k \in 1..Len(dfs) : \A i \in 1..Len(dfs[k].rows) :
           dfs[k].rows[i].symbol \notin {NA, <<>>}
    /\ \A i \in 1..Len(df.rows) : df.rows[i].symbol \notin {NA, <<>>}

\* The place of a merged row's key in the concatenation of the cleaned files.
FirstPosition(r) ==
    CHOOSE i \in 1..Len(AllCleanRows) :
        /\ SameKey(AllCleanRows[i], r)
        /\ \A h \in 1..(i - 1) : ~SameKey(AllCleanRows[h], r)

\* C10: the merged table is in ascending date order, and rows of equal date keep
\* the relative order they had in the concatenation of the files.
C10_MergedSortedByDateStable ==
    pc \in {"sliders", "spikes", "daily"} =>
        \A i, j \in 1..Len(df.rows) :
            i < j =>
                /\ ~DateLess(df.rows[j].date, df.rows[i].date)
                /\ df.rows[i].date = df.rows[j].date
                       => FirstPosition(df.rows[i]) < FirstPosition(df.rows[j])

\* What does hold of the merge: ascending date order.
MergedSortedByDate ==
    pc \in {"sliders", "spikes", "daily"} =>
        \A i, j \in 1..Len(df.rows) :
            i < j => ~DateLess(df.rows[j].date, df.rows[i].date)

\* Whether the k-th uploaded file has an open column after normalisation.
HasOpen(k) == c_open \in Range(RenamedColumns(uploaded_files[k].columns))

\* Row by row, net_value is deliverable_qty * open, null where open is null.
NetValueIsProduct(rows) ==
    \A i \in 1..Len(rows) :
        rows[i].net_value =
            IF rows[i].open.nan THEN NaN
            ELSE Num(rows[i].deliverable_qty * rows[i].open.v)

\* C11: a cleaned table has the net_value column if and only if its file has an
\* open column; with an open column every row's net_value is
\* deliverable_qty * open (null where open is null), without one the table has
\* no net_value column at all.
C11_NetValueColumnIffOpen ==
    \A k \in 1..Len(dfs) :
        /\ c_net_value \in dfs[k].cols <=> HasOpen(k)
        /\ HasOpen(k) => NetValueIsProduct(dfs[k].rows)

\* What does hold of net_value: the column is in every cleaned table, the
\* product where the file has an open column, all null where it has none.
NetValueColumnAlways ==
    \A k \in 1..Len(dfs) :
        /\ c_net_value \in dfs[k].cols
        /\ HasOpen(k) => NetValueIsProduct(dfs[k].rows)
        /\ ~HasOpen(k) => \A i \in 1..Len(dfs[k].rows) : dfs[k].rows[i].net_value = NaN

====
